---------------------------- MODULE Spec2Model ----------------------------
(***************************************************************************)
(* Model of ActivityObserver (src/extractor/basic_logger.py): the session  *)
(* lifecycle (start/stop), the event writer shared by the pynput listener  *)
(* threads, the rotation loop (_upload_scheduler), the uploader            *)
(* (_upload_file), the screenshot scheduler and the window monitor.        *)
(*                                                                         *)
(* Threads: one controller (the GUI thread of src/main.py, which calls     *)
(* start() and stop() one after the other), and per session g a mouse      *)
(* listener thread, a keyboard listener thread, an upload scheduler        *)
(* thread, a screenshot scheduler thread and a window monitor thread.      *)
(* Every action is one statement (or a run of statements of which at most  *)
(* one touches shared state) of the thread that takes it.                  *)
(***************************************************************************)
EXTENDS Integers, Sequences, FiniteSets, TLC

\* ------------------------------------------------------------- bounds
MaxSessions == 2      \* start() calls that create a session
MaxObs == 1           \* input callbacks delivered by the listeners
MaxRot == 1           \* rotation ticks that find the state Recording
MaxWin == 2           \* scheduling windows a screenshot scheduler opens

\* ------------------------------------------------- program constants
mouse_throttle_ms == 250
\* time.time() (ms) when the observer is constructed: far beyond the initial
\* _last_mouse_time of 0.0.
T0 == 4 * mouse_throttle_ms
\* The screenshot scheduler: captures per window, and the seconds of a
\* window (range(20) at line 115, hour_start + 20 at line 133).
CAPTURES_PER_HOUR == 4
WindowSeconds == 20

\* Gaps (ms) between successive clock readings of on_move.
Deltas == {50, 210}
\* HTTP outcomes of requests.post / requests.put: a status, or an exception.
Statuses == {"200", "500", "raise"}

\* What _take_screenshot takes (ms): less than a second, or longer than the
\* gap to the next offset.
CaptureMs == {0, 2000}
\* Titles gw.getActiveWindow() reports.
Titles == {"A", "B"}

Gens == 1..MaxSessions
Listeners == {"mouse", "kbd"} \X Gens
Uploaders == {"up"} \X Gens
Schedulers == {"shot"} \X Gens
Monitors == {"win"} \X Gens
Threads == Listeners \cup Uploaders \cup Schedulers \cup Monitors
NoThread == <<"none", 0>>

VARIABLES
    is_recording,     \* ActivityObserver.is_recording
    session,          \* ActivityObserver.session: session_id = 0 is None
    event_count,      \* ActivityObserver.event_count
    lock,             \* ActivityObserver._lock: the thread holding it, or NoThread
    log_file,         \* ActivityObserver._log_file: index into handles, 0 is None
    handles,          \* the file objects open() has returned: [path, open]
    disk,             \* paths that exist in output_logs_dir
    content,          \* path -> the records appended to that file
    stop_event,       \* ActivityObserver._stop_event: index into events
    events,           \* the threading.Event objects created: their flags
    last_mouse_time,  \* ActivityObserver._last_mouse_time (ms)
    clock,            \* time.time() at its last reading (ms)
    nuuid,            \* uuid4() values drawn so far
    nsess,            \* sessions created by start()
    listening,        \* g -> the listeners of session g are started and not stopped
    ctl,              \* the controller's position in start() / stop()
    ctl_sid,          \* start(): the local session_id
    ctl_last,         \* how the controller's last call returned
    pc,               \* thread -> position
    cur,              \* listener thread -> the observation its callback handles
    rot,              \* g -> locals of session g's upload scheduler thread
    nrot,             \* rotation ticks taken
    obs,              \* history: one entry per delivered observation
    rotlog,           \* history: one entry per rotation that published a new file
    uplog,            \* history: one entry per finished _upload_file call
    segOwner,         \* history: path -> session_id current when it was opened
    shot,             \* g -> locals of session g's screenshot scheduler thread
    last_shot,        \* the name of the screenshot file written last (0: none)
    current_window,   \* ActivityObserver._current_window
    poll              \* g -> what the last query of session g's window monitor gave

vars == <<is_recording, session, event_count, lock, log_file, handles, disk,
          content, stop_event, events, last_mouse_time, clock, nuuid, nsess,
          listening, ctl, ctl_sid, ctl_last, pc, cur, rot, nrot, obs, rotlog,
          uplog, segOwner, shot, last_shot, current_window, poll>>

\* Groups used in UNCHANGED clauses.
fileVars == <<log_file, handles, disk, content, segOwner>>
histVars == <<obs, rotlog, uplog>>
\* The state of the screenshot scheduler and of the window monitor.
bgVars == <<shot, last_shot, current_window, poll>>

NoSession == [session_id |-> 0, output_file |-> 0]
RotInit == [ev |-> 0, file_path |-> 0, closed |-> 0, new_file |-> 0,
            intr |-> FALSE]
ShotInit == [offsets |-> <<>>, i |-> 0, hour_start |-> 0, ev |-> 0,
             win |-> 0, caps |-> 0]
\* _current_window: {} before the first poll; all three fields None.
NoWindow == "empty"
NullWindow == "null"

Init ==
    /\ is_recording = FALSE
    /\ session = NoSession
    /\ event_count = 0
    /\ lock = NoThread
    /\ log_file = 0
    /\ handles = <<>>
    /\ disk = {}
    /\ content = <<>>
    /\ stop_event = 1
    /\ events = <<FALSE>>
    /\ last_mouse_time = 0
    /\ clock = T0
    /\ nuuid = 0
    /\ nsess = 0
    /\ listening = [g \in Gens |-> FALSE]
    /\ ctl = "idle"
    /\ ctl_sid = 0
    /\ ctl_last = "none"
    /\ pc = [t \in Threads |-> IF t \in Listeners THEN "idle" ELSE "unborn"]
    /\ cur = [t \in Listeners |-> 0]
    /\ rot = [g \in Gens |-> RotInit]
    /\ nrot = 0
    /\ obs = <<>>
    /\ rotlog = <<>>
    /\ uplog = <<>>
    /\ segOwner = <<>>
    /\ shot = [g \in Gens |-> ShotInit]
    /\ last_shot = 0
    /\ current_window = NoWindow
    /\ poll = [g \in Gens |-> "none"]

\* ------------------------------------------------------------ helpers
IsOpen(h) == h # 0 /\ handles[h].open
OpenHandles == {h \in 1..Len(handles) : handles[h].open}

\* open(path, "a"): a new file object; the file is created when missing.
OpenFile(path) ==
    /\ handles' = Append(handles, [path |-> path, open |-> TRUE])
    /\ log_file' = Len(handles) + 1
    /\ disk' = disk \cup {path}
    /\ content' = IF path \in DOMAIN content THEN content
                  ELSE content @@ (path :> <<>>)
    /\ segOwner' = IF path \in DOMAIN segOwner THEN segOwner
                   ELSE segOwner @@ (path :> session.session_id)

\* file.close(): closing a closed file object does nothing.
CloseHandle(h) == handles' = [handles EXCEPT ![h].open = FALSE]

\* Callbacks and rotations in flight when stop() flips is_recording.
InFlight(o) == obs[o].st = "inflight"
Rotating(g) == pc[<<"up", g>>] \in {"r278", "r284", "r289", "r290"}

\* ------------------------------------------------- controller: start()
\* lines 185-192: return if recording; session_id = str(uuid.uuid4());
\* self._stop_event = threading.Event()
StartCall(maxs) ==
    /\ ctl = "idle"
    /\ ~is_recording
    /\ nsess < maxs
    /\ nuuid' = nuuid + 1
    /\ ctl_sid' = nuuid + 1
    /\ nsess' = nsess + 1
    /\ events' = Append(events, FALSE)
    /\ stop_event' = Len(events) + 1
    /\ ctl' = "s194"
    /\ ctl_last' = "call"
    /\ UNCHANGED bgVars
    /\ UNCHANGED <<is_recording, session, event_count, lock, fileVars,
                   last_mouse_time, clock, listening, pc, cur, rot, nrot,
                   histVars>>

\* lines 194-201: self.session = SessionMetadata(..., output_file =
\* session_<session_id>.jsonl)
Start194 ==
    /\ ctl = "s194"
    /\ session' = [session_id |-> ctl_sid, output_file |-> ctl_sid]
    /\ ctl' = "s205"
    /\ UNCHANGED bgVars
    /\ UNCHANGED <<is_recording, event_count, lock, fileVars, stop_event,
                   events, last_mouse_time, clock, nuuid, nsess, listening,
                   ctl_sid, ctl_last, pc, cur, rot, nrot, histVars>>

\* line 205: self._log_file = open(self.session.output_file, "a", ...).
\* When the file cannot be created open() raises OSError, which leaves
\* start(): the caller (src/main.py, line 173) catches it.
Start205 ==
    /\ ctl = "s205"
    /\ \/ /\ OpenFile(session.output_file)
          /\ ctl' = "s206"
          /\ UNCHANGED ctl_last
       \/ /\ ctl' = "idle"
          /\ ctl_last' = "start_error"
          /\ UNCHANGED fileVars
    /\ UNCHANGED bgVars
    /\ UNCHANGED <<is_recording, session, event_count, lock, stop_event,
                   events, last_mouse_time, clock, nuuid, nsess, listening,
                   ctl_sid, pc, cur, rot, nrot, histVars>>

\* line 206: self.is_recording = True
Start206 ==
    /\ ctl = "s206"
    /\ is_recording' = TRUE
    /\ ctl' = "s207"
    /\ UNCHANGED bgVars
    /\ UNCHANGED <<session, event_count, lock, fileVars, stop_event, events,
                   last_mouse_time, clock, nuuid, nsess, listening, ctl_sid,
                   ctl_last, pc, cur, rot, nrot, histVars>>

\* line 207: self.event_count = 0
Start207 ==
    /\ ctl = "s207"
    /\ event_count' = 0
    /\ ctl' = "s228"
    /\ UNCHANGED bgVars
    /\ UNCHANGED <<is_recording, session, lock, fileVars, stop_event, events,
                   last_mouse_time, clock, nuuid, nsess, listening, ctl_sid,
                   ctl_last, pc, cur, rot, nrot, histVars>>

\* lines 210-241: the window monitor, the screenshot scheduler and the upload
\* scheduler threads of this session are started, then its mouse and
\* keyboard listeners.
Start241 ==
    /\ ctl = "s228"
    /\ pc' = [pc EXCEPT ![<<"win", nsess>>] = "p143",
                         ![<<"shot", nsess>>] = "s112",
                         ![<<"up", nsess>>] = "r268"]
    /\ listening' = [listening EXCEPT ![nsess] = TRUE]
    /\ ctl' = "idle"
    /\ UNCHANGED bgVars
    /\ UNCHANGED <<is_recording, session, event_count, lock, fileVars,
                   stop_event, events, last_mouse_time, clock, nuuid, nsess,
                   ctl_sid, ctl_last, cur, rot, nrot, histVars>>

\* -------------------------------------------------- controller: stop()
\* line 251: self.is_recording = False.  The callbacks and rotations in
\* flight at this point are marked: they do not run wholly within a
\* Recording period.
Stop251 ==
    /\ is_recording' = FALSE
    /\ ctl' = "t253"
    /\ ctl_last' = "call"
    /\ obs' = [o \in DOMAIN obs |->
                 IF InFlight(o) THEN [obs[o] EXCEPT !.intr = TRUE] ELSE obs[o]]
    /\ rot' = [g \in Gens |->
                 IF Rotating(g) THEN [rot[g] EXCEPT !.intr = TRUE] ELSE rot[g]]
    /\ UNCHANGED <<rotlog, uplog>>

\* lines 248-249: if not self.is_recording: return
StopNoop ==
    /\ ctl_last' = "stop_noop"
    /\ UNCHANGED <<is_recording, ctl, histVars, rot>>

\* Mutant: stop() without the test of line 248.
StopCall_Unguarded ==
    /\ ctl = "idle"
    /\ Stop251
    /\ UNCHANGED bgVars
    /\ UNCHANGED <<session, event_count, lock, fileVars, stop_event, events,
                   last_mouse_time, clock, nuuid, nsess, listening, ctl_sid,
                   pc, cur, nrot>>

StopCall ==
    /\ ctl = "idle"
    /\ IF is_recording THEN Stop251 ELSE StopNoop
    /\ UNCHANGED bgVars
    /\ UNCHANGED <<session, event_count, lock, fileVars, stop_event, events,
                   last_mouse_time, clock, nuuid, nsess, listening, ctl_sid,
                   pc, cur, nrot>>

\* lines 252-253: self.mouse_listener.stop(); self.keyboard_listener.stop().
\* Listener.stop() asks the listener thread to end; it does not wait for a
\* callback that is running.
Stop253 ==
    /\ ctl = "t253"
    /\ listening' = [listening EXCEPT ![nsess] = FALSE]
    /\ ctl' = "t255"
    /\ UNCHANGED bgVars
    /\ UNCHANGED <<is_recording, session, event_count, lock, fileVars,
                   stop_event, events, last_mouse_time, clock, nuuid, nsess,
                   ctl_sid, ctl_last, pc, cur, rot, nrot, histVars>>

\* lines 255-258: self._stop_event.set(); if self._log_file:
\* self._log_file.close()
Stop258 ==
    /\ ctl = "t255"
    /\ events' = [events EXCEPT ![stop_event] = TRUE]
    /\ IF log_file # 0 THEN CloseHandle(log_file) ELSE UNCHANGED handles
    /\ ctl' = "idle"
    /\ UNCHANGED bgVars
    /\ UNCHANGED <<is_recording, session, event_count, lock, log_file, disk,
                   content, segOwner, stop_event, last_mouse_time, clock,
                   nuuid, nsess, listening, ctl_sid, ctl_last, pc, cur, rot,
                   nrot, histVars>>

\* ------------------------------------------- listener threads: callbacks
\* The history entry of a delivered observation: the thread, the session and
\* the state it was delivered in, the clock reading and the result of the
\* throttle test (moves), where it stands (st), whether stop() ran during its
\* callback (intr), and what its callback saw when it took the lock.
NewObs(t, kind, now, passed, state) ==
    [thr |-> t, kind |-> kind, t |-> now, pass |-> passed, st |-> state,
     sess0 |-> session.session_id, rec0 |-> is_recording,
     intr |-> FALSE, sid |-> 0, lockPath |-> 0, win |-> NoWindow]

\* The listener thread t is running and idle; n callbacks are delivered at most.
Delivering(t, n) ==
    /\ t \in Listeners
    /\ pc[t] = "idle"
    /\ listening[t[2]]
    /\ Len(obs) < n

\* The throttle test of line 369, in ms: the move is dropped when it holds.
Throttled(now, last) == now - last < mouse_throttle_ms

\* _write_event, line 347: return unless recording.  The position after it.
After347 == IF is_recording THEN "w351" ELSE "idle"
St347 == IF is_recording THEN "inflight" ELSE "skipped"

\* _on_mouse_move, lines 364-370: now = time.time(); the throttle test.
OnMouseMove(g, n) ==
    LET t == <<"mouse", g>> IN
    /\ Delivering(t, n)
    /\ \E d \in Deltas :
         LET now == clock + d
             drop == Throttled(now, last_mouse_time) IN
         /\ clock' = now
         /\ obs' = Append(obs, NewObs(t, "mouse_move", now, ~drop,
                                      IF drop THEN "throttled" ELSE "inflight"))
         /\ pc' = [pc EXCEPT ![t] = IF drop THEN "idle" ELSE "m372"]
         /\ cur' = [cur EXCEPT ![t] = IF drop THEN 0 ELSE Len(obs) + 1]
    /\ UNCHANGED bgVars
    /\ UNCHANGED <<is_recording, session, event_count, lock, fileVars,
                   stop_event, events, last_mouse_time, nuuid, nsess,
                   listening, ctl, ctl_sid, ctl_last, rot, nrot, rotlog, uplog>>

\* _on_mouse_move, line 372: self._last_mouse_time = now
Move372(g) ==
    LET t == <<"mouse", g>> IN
    /\ pc[t] = "m372"
    /\ last_mouse_time' = obs[cur[t]].t
    /\ pc' = [pc EXCEPT ![t] = "w347"]
    /\ UNCHANGED bgVars
    /\ UNCHANGED <<is_recording, session, event_count, lock, fileVars,
                   stop_event, events, clock, nuuid, nsess, listening, ctl,
                   ctl_sid, ctl_last, cur, rot, nrot, histVars>>

\* _on_mouse_move, line 374, then _write_event line 347.
Write347(g) ==
    LET t == <<"mouse", g>> IN
    /\ pc[t] = "w347"
    /\ pc' = [pc EXCEPT ![t] = After347]
    /\ obs' = [obs EXCEPT ![cur[t]].st = St347]
    /\ cur' = [cur EXCEPT ![t] = IF is_recording THEN @ ELSE 0]
    /\ UNCHANGED bgVars
    /\ UNCHANGED <<is_recording, session, event_count, lock, fileVars,
                   stop_event, events, last_mouse_time, clock, nuuid, nsess,
                   listening, ctl, ctl_sid, ctl_last, rot, nrot, rotlog, uplog>>

\* A callback that calls _write_event at once: its first shared access is
\* the test of line 347.
Direct(t, kind, n) ==
    /\ Delivering(t, n)
    /\ obs' = Append(obs, NewObs(t, kind, 0, TRUE, St347))
    /\ pc' = [pc EXCEPT ![t] = After347]
    /\ cur' = [cur EXCEPT ![t] = IF is_recording THEN Len(obs) + 1 ELSE 0]
    /\ UNCHANGED bgVars
    /\ UNCHANGED <<is_recording, session, event_count, lock, fileVars,
                   stop_event, events, last_mouse_time, clock, nuuid, nsess,
                   listening, ctl, ctl_sid, ctl_last, rot, nrot, rotlog, uplog>>

\* _on_mouse_click, lines 380-386.
OnMouseClick(g, n) == Direct(<<"mouse", g>>, "mouse_click", n)
\* _on_mouse_scroll, lines 388-394.
OnMouseScroll(g, n) == Direct(<<"mouse", g>>, "mouse_scroll", n)
\* _on_key_press, lines 398-404.
OnKeyPress(g, n) == Direct(<<"kbd", g>>, "key_press", n)

\* --------------------------------------------------------- _write_event
\* Mutant: the lock does not exclude anybody.
LockFree_Ignored(t) == TRUE

\* "with self._lock" blocks until the lock is free.
LockFree(t) == lock = NoThread

\* lines 351-357: the lock is taken and the Event is built from
\* self.session.session_id and self._current_window.
WriteAcquire(t) ==
    /\ pc[t] = "w351"
    /\ LockFree(t)
    /\ lock' = t
    /\ obs' = [obs EXCEPT ![cur[t]].sid = session.session_id,
                          ![cur[t]].win = current_window,
                          ![cur[t]].lockPath =
                              IF log_file = 0 THEN 0 ELSE handles[log_file].path]
    /\ pc' = [pc EXCEPT ![t] = "w359"]
    /\ UNCHANGED bgVars
    /\ UNCHANGED <<is_recording, session, event_count, fileVars, stop_event,
                   events, last_mouse_time, clock, nuuid, nsess, listening,
                   ctl, ctl_sid, ctl_last, cur, rot, nrot, rotlog, uplog>>

\* The line written for observation o.
Record(o) ==
    [o |-> o, session_id |-> obs[o].sid, event_type |-> obs[o].kind,
     window |-> obs[o].win]

\* line 359: self._log_file.write(event.to_json() + "\n").  Writing to a
\* closed file object raises ValueError: the with statement releases the
\* lock and the exception ends the listener thread.
WriteAppend(t) ==
    /\ pc[t] = "w359"
    /\ IF IsOpen(log_file)
       THEN /\ content' = [content EXCEPT ![handles[log_file].path] =
                                             Append(@, Record(cur[t]))]
            /\ pc' = [pc EXCEPT ![t] = "w360"]
            /\ UNCHANGED <<lock, obs, cur>>
       ELSE /\ lock' = NoThread
            /\ pc' = [pc EXCEPT ![t] = "error"]
            /\ obs' = [obs EXCEPT ![cur[t]].st = "error"]
            /\ cur' = [cur EXCEPT ![t] = 0]
            /\ UNCHANGED content
    /\ UNCHANGED bgVars
    /\ UNCHANGED <<is_recording, session, event_count, log_file, handles,
                   disk, segOwner, stop_event, events, last_mouse_time, clock,
                   nuuid, nsess, listening, ctl, ctl_sid, ctl_last, rot, nrot,
                   rotlog, uplog>>

\* line 360: self.event_count += 1; the lock is released.
WriteCount(t) ==
    /\ pc[t] = "w360"
    /\ event_count' = event_count + 1
    /\ lock' = NoThread
    /\ pc' = [pc EXCEPT ![t] = "idle"]
    /\ obs' = [obs EXCEPT ![cur[t]].st = "written"]
    /\ cur' = [cur EXCEPT ![t] = 0]
    /\ UNCHANGED bgVars
    /\ UNCHANGED <<is_recording, session, fileVars, stop_event, events,
                   last_mouse_time, clock, nuuid, nsess, listening, ctl,
                   ctl_sid, ctl_last, rot, nrot, rotlog, uplog>>

\* ------------------------------------------ _upload_scheduler (session g)
\* line 268: while not self._stop_event.is_set(); line 271 then waits on
\* the Event object self._stop_event names at that moment.
Rot268(g) ==
    LET t == <<"up", g>> IN
    /\ pc[t] = "r268"
    /\ IF events[stop_event]
       THEN /\ pc' = [pc EXCEPT ![t] = "exit"]
            /\ UNCHANGED rot
       ELSE /\ pc' = [pc EXCEPT ![t] = "r271"]
            /\ rot' = [rot EXCEPT ![g].ev = stop_event]
    /\ UNCHANGED bgVars
    /\ UNCHANGED <<is_recording, session, event_count, lock, fileVars,
                   stop_event, events, last_mouse_time, clock, nuuid, nsess,
                   listening, ctl, ctl_sid, ctl_last, cur, nrot, histVars>>

\* lines 271-272: the wait returns True once the Event is set: break.
RotWake(g) ==
    LET t == <<"up", g>> IN
    /\ pc[t] = "r271"
    /\ events[rot[g].ev]
    /\ pc' = [pc EXCEPT ![t] = "exit"]
    /\ UNCHANGED bgVars
    /\ UNCHANGED <<is_recording, session, event_count, lock, fileVars,
                   stop_event, events, last_mouse_time, clock, nuuid, nsess,
                   listening, ctl, ctl_sid, ctl_last, cur, rot, nrot, histVars>>

\* lines 271-275: the wait times out (the Event is not set); the tick is
\* skipped unless recording.  n rotations are started at most.
RotTick(g, n) ==
    LET t == <<"up", g>> IN
    /\ pc[t] = "r271"
    /\ ~events[rot[g].ev]
    /\ IF is_recording
       THEN /\ nrot < n
            /\ nrot' = nrot + 1
            /\ pc' = [pc EXCEPT ![t] = "r278"]
            /\ rot' = [rot EXCEPT ![g].intr = FALSE]
       ELSE /\ pc' = [pc EXCEPT ![t] = "r268"]
            /\ UNCHANGED <<nrot, rot>>
    /\ UNCHANGED bgVars
    /\ UNCHANGED <<is_recording, session, event_count, lock, fileVars,
                   stop_event, events, last_mouse_time, clock, nuuid, nsess,
                   listening, ctl, ctl_sid, ctl_last, cur, histVars>>

\* Mutant: the rotation runs without taking the lock.
RotAcquire_Unlocked(g) ==
    LET t == <<"up", g>> IN
    /\ pc[t] = "r278"
    /\ rot' = [rot EXCEPT ![g].file_path = session.output_file]
    /\ pc' = [pc EXCEPT ![t] = "r284"]
    /\ UNCHANGED bgVars
    /\ UNCHANGED <<is_recording, session, event_count, lock, fileVars,
                   stop_event, events, last_mouse_time, clock, nuuid, nsess,
                   listening, ctl, ctl_sid, ctl_last, cur, nrot, histVars>>

\* lines 278-280: with self._lock; file_path = Path(self.session.output_file)
RotAcquire(g) ==
    LET t == <<"up", g>> IN
    /\ pc[t] = "r278"
    /\ LockFree(t)
    /\ lock' = t
    /\ rot' = [rot EXCEPT ![g].file_path = session.output_file]
    /\ pc' = [pc EXCEPT ![t] = "r284"]
    /\ UNCHANGED bgVars
    /\ UNCHANGED <<is_recording, session, event_count, fileVars, stop_event,
                   events, last_mouse_time, clock, nuuid, nsess, listening,
                   ctl, ctl_sid, ctl_last, cur, nrot, histVars>>

RotEntry(g, ok) ==
    [thr |-> <<"up", g>>, ok |-> ok, intr |-> rot[g].intr,
     file_path |-> rot[g].file_path, closed |-> rot[g].closed,
     new_file |-> rot[g].new_file, active |-> 0, output_file |-> 0]

\* lines 283-285: if self._log_file: flush(); close().  flush() on a closed
\* file object raises ValueError: the lock is released, line 296 reports it
\* and the loop goes on.
Rot284(g) ==
    LET t == <<"up", g>> IN
    /\ pc[t] = "r284"
    /\ IF log_file = 0
       THEN /\ pc' = [pc EXCEPT ![t] = "r289"]
            /\ UNCHANGED <<handles, lock, rot, rotlog>>
       ELSE IF handles[log_file].open
       THEN /\ CloseHandle(log_file)
            /\ rot' = [rot EXCEPT ![g].closed = handles[log_file].path]
            /\ pc' = [pc EXCEPT ![t] = "r289"]
            /\ UNCHANGED <<lock, rotlog>>
       ELSE /\ lock' = NoThread
            /\ pc' = [pc EXCEPT ![t] = "r268"]
            /\ rotlog' = Append(rotlog, RotEntry(g, FALSE))
            /\ UNCHANGED <<handles, rot>>
    /\ UNCHANGED bgVars
    /\ UNCHANGED <<is_recording, session, event_count, log_file, disk,
                   content, segOwner, stop_event, events, last_mouse_time,
                   clock, nuuid, nsess, listening, ctl, ctl_sid, ctl_last,
                   cur, nrot, obs, uplog>>

\* Mutant: the rotation names the new file after the session.
NewSegment_SessionId(g) == session.session_id

\* The name of the file a rotation opens: session_<uuid4()>.jsonl
NewSegment(g) == nuuid + 1

\* lines 288-289: new_file = ...; self.session.output_file = str(new_file)
Rot289(g) ==
    LET t == <<"up", g>> IN
    /\ pc[t] = "r289"
    /\ nuuid' = nuuid + 1
    /\ rot' = [rot EXCEPT ![g].new_file = NewSegment(g)]
    /\ session' = [session EXCEPT !.output_file = NewSegment(g)]
    /\ pc' = [pc EXCEPT ![t] = "r290"]
    /\ UNCHANGED bgVars
    /\ UNCHANGED <<is_recording, event_count, lock, fileVars, stop_event,
                   events, last_mouse_time, clock, nsess, listening, ctl,
                   ctl_sid, ctl_last, cur, nrot, histVars>>

\* Mutant: the upload is called inside the with block: the lock is not
\* released before line 293.
Rot290_HoldsLock(g) ==
    LET t == <<"up", g>> IN
    /\ pc[t] = "r290"
    /\ OpenFile(rot[g].new_file)
    /\ rotlog' = Append(rotlog,
            [RotEntry(g, TRUE) EXCEPT !.active = handles'[log_file'].path,
                                      !.output_file = session.output_file])
    /\ pc' = [pc EXCEPT ![t] = "u302"]
    /\ UNCHANGED bgVars
    /\ UNCHANGED <<is_recording, session, event_count, lock, stop_event,
                   events, last_mouse_time, clock, nuuid, nsess, listening,
                   ctl, ctl_sid, ctl_last, cur, rot, nrot, obs, uplog>>

\* line 290: self._log_file = open(new_file, "a", ...); the lock is released
\* and line 293 calls self._upload_file(file_path).
Rot290(g) ==
    LET t == <<"up", g>> IN
    /\ pc[t] = "r290"
    /\ OpenFile(rot[g].new_file)
    /\ lock' = NoThread
    /\ rotlog' = Append(rotlog,
            [RotEntry(g, TRUE) EXCEPT !.active = handles'[log_file'].path,
                                      !.output_file = session.output_file])
    /\ pc' = [pc EXCEPT ![t] = "u302"]
    /\ UNCHANGED bgVars
    /\ UNCHANGED <<is_recording, session, event_count, stop_event, events,
                   last_mouse_time, clock, nuuid, nsess, listening, ctl,
                   ctl_sid, ctl_last, cur, rot, nrot, obs, uplog>>

\* line 290 when the new file cannot be created: open() raises OSError
\* before self._log_file is assigned, so the attribute keeps the file object
\* closed at line 285 while session.output_file names the new path; the lock
\* is released, line 293 is skipped, line 296 reports the error and the loop
\* goes on at line 268.
Rot290Fails(g) ==
    LET t == <<"up", g>> IN
    /\ pc[t] = "r290"
    /\ lock' = NoThread
    /\ rotlog' = Append(rotlog, RotEntry(g, FALSE))
    /\ pc' = [pc EXCEPT ![t] = "r268"]
    /\ UNCHANGED bgVars
    /\ UNCHANGED <<is_recording, session, event_count, fileVars, stop_event,
                   events, last_mouse_time, clock, nuuid, nsess, listening,
                   ctl, ctl_sid, ctl_last, cur, rot, nrot, obs, uplog>>

\* ---------------------------------------------------------- _upload_file
\* Whether _upload_file goes on after the destination request (line 317).
Granted(st) == st = "200"
\* Mutant: the file is removed whatever the transfer answered.
Transferred_Always(st) == st \in {"200", "500"}

\* Whether the local file is removed after the transfer (line 336).
Transferred(st) == st = "200"

\* Mutant: what a request raises leaves _upload_file and the loop.
Caught_Never(st) == FALSE

\* lines 342 and 295: "except Exception" catches what a request raises (the
\* exceptions of requests are subclasses of Exception).
Caught(st) == TRUE

\* _upload_file as a function of whether the file exists and of what the two
\* requests answer: the requests it sends and whether it unlinks the file.
\* A request that raises ends the call at line 342.
UploadOutcome(exists, post, put) ==
    IF ~exists                                            \* lines 302-303
    THEN [post |-> "none", put |-> "none", unlink |-> FALSE]
    ELSE IF ~Granted(post)                                \* lines 309-319
    THEN [post |-> post, put |-> "none", unlink |-> FALSE]
    ELSE [post |-> post, put |-> put,                     \* lines 324-340
          unlink |-> Transferred(put)]

\* line 293: self._upload_file(file_path).  The call touches no state of the
\* observer but the file at file_path, which the rotation has closed; then
\* the loop goes on at line 268.  An exception nobody catches would end the
\* thread.
UploadFile(g) ==
    LET t == <<"up", g>>
        path == rot[g].file_path IN
    /\ pc[t] = "u302"
    /\ \E post \in Statuses, put \in Statuses :
         LET out == UploadOutcome(path \in disk, post, put) IN
         /\ disk' = IF out.unlink THEN disk \ {path} ELSE disk
         /\ uplog' = Append(uplog,
                [thr |-> t, path |-> path, existed |-> path \in disk,
                 post |-> out.post, put |-> out.put,
                 deleted |-> path \in disk /\ path \notin disk'])
         /\ pc' = [pc EXCEPT ![t] =
                      IF "raise" \in {out.post, out.put} /\ ~Caught("raise")
                      THEN "dead" ELSE "r268"]
    /\ UNCHANGED bgVars
    /\ UNCHANGED <<is_recording, session, event_count, lock, log_file,
                   handles, content, segOwner, stop_event, events,
                   last_mouse_time, clock, nuuid, nsess, listening, ctl,
                   ctl_sid, ctl_last, cur, rot, nrot, obs, rotlog>>

\* ------------------------------------- _screenshot_scheduler (session g)
\* What the steps of the background loops leave alone.
loopFrame == <<is_recording, session, event_count, lock, fileVars,
               stop_event, events, last_mouse_time, nuuid, nsess, listening,
               ctl, ctl_sid, ctl_last, cur, rot, nrot, histVars>>

\* line 115: sorted(random.sample(range(20), self._CAPTURES_PER_HOUR))
Samples ==
    {s \in [1..CAPTURES_PER_HOUR -> 0..(WindowSeconds - 1)] :
        \A i \in 1..(CAPTURES_PER_HOUR - 1) : s[i] < s[i + 1]}

\* line 82: datetime.now().strftime("%Y%m%d_%H%M%S") of a clock reading (ms).
Timestamp(ms) == ms \div 1000

Later(a, b) == IF a >= b THEN a ELSE b

\* line 123: target_time = hour_start + offset (ms).
TargetTime(g) == shot[g].hour_start + 1000 * shot[g].offsets[shot[g].i]
\* line 133: hour_start + 20 (ms).
WindowEnd(g) == shot[g].hour_start + 1000 * WindowSeconds

\* line 112: while not self._stop_event.is_set(); lines 115-117: the offsets
\* of a window are drawn and hour_start = time.time().
Shot112(g) ==
    LET t == <<"shot", g>> IN
    /\ pc[t] = "s112"
    /\ IF events[stop_event]
       THEN /\ pc' = [pc EXCEPT ![t] = "exit"]
            /\ UNCHANGED shot
       ELSE /\ shot[g].win < MaxWin
            /\ \E s \in Samples :
                 shot' = [shot EXCEPT ![g] =
                            [offsets |-> s, i |-> 1, hour_start |-> clock,
                             ev |-> 0, win |-> shot[g].win + 1, caps |-> 0]]
            /\ pc' = [pc EXCEPT ![t] = "s120"]
    /\ UNCHANGED <<clock, last_shot, current_window, poll, loopFrame>>

\* lines 119-127: the next offset of the for loop; break when the Event is
\* set (the offsets are not read after the loop); the wait of line 127 is on
\* the Event self._stop_event names now.
Shot120(g) ==
    LET t == <<"shot", g>> IN
    /\ pc[t] = "s120"
    /\ IF shot[g].i > CAPTURES_PER_HOUR \/ events[stop_event]
       THEN /\ pc' = [pc EXCEPT ![t] = "s133"]
            /\ shot' = [shot EXCEPT ![g].offsets = <<>>, ![g].i = 0]
       ELSE IF TargetTime(g) - clock > 0
       THEN /\ pc' = [pc EXCEPT ![t] = "s127"]
            /\ shot' = [shot EXCEPT ![g].ev = stop_event]
       ELSE /\ pc' = [pc EXCEPT ![t] = "s129"]
            /\ UNCHANGED shot
    /\ UNCHANGED <<clock, last_shot, current_window, poll, loopFrame>>

\* line 127: self._stop_event.wait(sleep_time) returns at once when the Event
\* is set and at target_time otherwise.
Shot127(g) ==
    LET t == <<"shot", g>> IN
    /\ pc[t] = "s127"
    /\ clock' = IF events[shot[g].ev] THEN clock
                ELSE Later(clock, TargetTime(g))
    /\ pc' = [pc EXCEPT ![t] = "s129"]
    /\ UNCHANGED <<shot, last_shot, current_window, poll, loopFrame>>

\* lines 129-130: if not self._stop_event.is_set(): self._take_screenshot().
\* The capture names its file after the second it starts in; nothing in the
\* loop catches what it raises, so an exception ends the thread.
Shot129(g) ==
    LET t == <<"shot", g>>
        next == [shot EXCEPT ![g].i = @ + 1] IN
    /\ pc[t] = "s129"
    /\ IF events[stop_event]
       THEN /\ shot' = next
            /\ pc' = [pc EXCEPT ![t] = "s120"]
            /\ UNCHANGED <<clock, last_shot>>
       ELSE \/ /\ last_shot' = Timestamp(clock)
               /\ \E d \in CaptureMs : clock' = clock + d
               /\ shot' = [next EXCEPT ![g].caps = @ + 1]
               /\ pc' = [pc EXCEPT ![t] = "s120"]
            \/ /\ shot' = [shot EXCEPT ![g].caps = @ + 1]
               /\ pc' = [pc EXCEPT ![t] = "dead"]
               /\ UNCHANGED <<clock, last_shot>>
    /\ UNCHANGED <<current_window, poll, loopFrame>>

\* lines 133-135: remaining = hour_start + 20 - time.time(); the wait of
\* line 135 is on the Event self._stop_event names now.
Shot133(g) ==
    LET t == <<"shot", g>> IN
    /\ pc[t] = "s133"
    /\ IF WindowEnd(g) - clock > 0
       THEN /\ pc' = [pc EXCEPT ![t] = "s135"]
            /\ shot' = [shot EXCEPT ![g].ev = stop_event]
       ELSE /\ pc' = [pc EXCEPT ![t] = "s112"]
            /\ UNCHANGED shot
    /\ UNCHANGED <<clock, last_shot, current_window, poll, loopFrame>>

\* line 135: self._stop_event.wait(remaining)
Shot135(g) ==
    LET t == <<"shot", g>> IN
    /\ pc[t] = "s135"
    /\ clock' = IF events[shot[g].ev] THEN clock
                ELSE Later(clock, WindowEnd(g))
    /\ pc' = [pc EXCEPT ![t] = "s112"]
    /\ UNCHANGED <<shot, last_shot, current_window, poll, loopFrame>>

\* --------------------------------------- _window_monitor_loop (session g)
\* What gw.getActiveWindow() does: a window, None, or an exception.
Queries == Titles \cup {"nowindow", "raise"}

\* lines 148-161: the snapshot after a query.  "except Exception: pass"
\* leaves self._current_window as it was.
AfterQuery(q, before) ==
    IF q \in Titles THEN q
    ELSE IF q = "nowindow" THEN NullWindow
    ELSE before

\* line 143: while not self._stop_event.is_set(); lines 144-161: the query.
Poll143(g) ==
    LET t == <<"win", g>> IN
    /\ pc[t] = "p143"
    /\ IF events[stop_event]
       THEN /\ pc' = [pc EXCEPT ![t] = "exit"]
            /\ UNCHANGED <<current_window, poll>>
       ELSE /\ \E q \in Queries :
                 /\ current_window' = AfterQuery(q, current_window)
                 /\ poll' = [poll EXCEPT ![g] = q]
            /\ pc' = [pc EXCEPT ![t] = "p164"]
    /\ UNCHANGED <<clock, shot, last_shot, loopFrame>>

\* line 164: self._stop_event.wait(self.window_poll_interval) returns when
\* the Event is set or after the interval; the loop goes on at line 143.
Poll164(g) ==
    LET t == <<"win", g>> IN
    /\ pc[t] = "p164"
    /\ pc' = [pc EXCEPT ![t] = "p143"]
    /\ UNCHANGED <<clock, bgVars, loopFrame>>


\* ---------------------------------------------------------- environment
\* Somebody else removes a closed segment from output_logs_dir.
EnvRemoveFile ==
    /\ \E p \in disk :
         /\ \A h \in OpenHandles : handles[h].path # p
         /\ \E g \in Gens : pc[<<"up", g>>] = "u302" /\ rot[g].file_path = p
         /\ disk' = disk \ {p}
    /\ UNCHANGED bgVars
    /\ UNCHANGED <<is_recording, session, event_count, lock, log_file,
                   handles, content, segOwner, stop_event, events,
                   last_mouse_time, clock, nuuid, nsess, listening, ctl,
                   ctl_sid, ctl_last, pc, cur, rot, nrot, histVars>>

\* ---------------------------------------------------------- next state
\* start() and stop() as the GUI thread calls them, maxs sessions at most.
Controller(maxs) ==
    \/ StartCall(maxs) \/ Start194 \/ Start205 \/ Start206 \/ Start207
    \/ Start241 \/ StopCall \/ Stop253 \/ Stop258

\* _write_event past line 347, on either listener thread of session g.
Writer(g) ==
    \E k \in {"mouse", "kbd"} :
        \/ WriteAcquire(<<k, g>>)
        \/ WriteAppend(<<k, g>>)
        \/ WriteCount(<<k, g>>)

\* The mouse-move callback of session g.
Mover(g, n) == OnMouseMove(g, n) \/ Move372(g) \/ Write347(g)

\* The upload scheduler thread of session g while no tick is due.
Waiter(g) == Rot268(g) \/ RotWake(g)

\* A rotation tick of session g's upload scheduler, and its upload, in a
\* directory in which the new segment can be created; n rotations are
\* started at most.
Rotator(g, n) ==
    \/ RotTick(g, n) \/ RotAcquire(g) \/ Rot284(g) \/ Rot289(g) \/ Rot290(g)
    \/ UploadFile(g)

\* The same in a directory in which creating a segment may fail.
RotatorDisk(g, n) == Rotator(g, n) \/ Rot290Fails(g)

\* The session, its input callbacks and its rotation loop.
Next ==
    \/ Controller(MaxSessions)
    \/ \E g \in Gens :
         \/ Mover(g, MaxObs)
         \/ OnMouseClick(g, MaxObs) \/ OnMouseScroll(g, MaxObs)
         \/ OnKeyPress(g, MaxObs)
         \/ Writer(g)
         \/ Waiter(g) \/ RotatorDisk(g, MaxRot)

Spec == Init /\ [][Next]_vars

\* One session (start() is called once), in which clicks and key presses
\* arrive, one callback more than in Spec so that two of them run at once.
NextSession ==
    \/ Controller(1)
    \/ \E g \in Gens :
         \/ OnMouseClick(g, MaxObs + 1) \/ OnKeyPress(g, MaxObs + 1)
         \/ Writer(g)
         \/ Waiter(g) \/ Rotator(g, MaxRot)

SpecSession == Init /\ [][NextSession]_vars

\* Sessions in which only the mouse is used and which end before the upload
\* interval has elapsed.
NextInput ==
    \/ Controller(MaxSessions)
    \/ \E g \in Gens :
         \/ Mover(g, MaxObs + 1)
         \/ OnMouseClick(g, MaxObs + 1) \/ OnMouseScroll(g, MaxObs + 1)
         \/ Writer(g)
         \/ Waiter(g)

SpecInput == Init /\ [][NextInput]_vars

\* Sessions in which no input arrives and which end before the upload
\* interval has elapsed.
NextCtl ==
    \/ Controller(MaxSessions)
    \/ \E g \in Gens : Waiter(g)

SpecCtl == Init /\ [][NextCtl]_vars

\* One session in which no input arrives, in a directory whose closed
\* segments may be removed by somebody else while they wait for their upload.
NextEnv ==
    \/ Controller(1)
    \/ \E g \in Gens : Waiter(g) \/ Rotator(g, MaxRot)
    \/ EnvRemoveFile

SpecEnv == Init /\ [][NextEnv]_vars

\* One session in which keys are pressed and which lasts for one upload
\* interval more than the sessions of Spec.
NextUpload ==
    \/ Controller(1)
    \/ \E g \in Gens :
         \/ OnKeyPress(g, MaxObs)
         \/ Writer(g)
         \/ Waiter(g) \/ Rotator(g, MaxRot + 1)

SpecUpload == Init /\ [][NextUpload]_vars

\* The same session in a directory in which creating a segment may fail.
NextDisk ==
    \/ Controller(1)
    \/ \E g \in Gens :
         \/ OnKeyPress(g, MaxObs)
         \/ Writer(g)
         \/ Waiter(g) \/ RotatorDisk(g, MaxRot + 1)

SpecDisk == Init /\ [][NextDisk]_vars

\* The screenshot scheduler thread of session g.
Shooter(g) ==
    \/ Shot112(g) \/ Shot120(g) \/ Shot127(g) \/ Shot129(g) \/ Shot133(g)
    \/ Shot135(g)

\* The window monitor thread of session g.
Monitor(g) == Poll143(g) \/ Poll164(g)

\* One session in which no input arrives and which ends before the upload
\* interval has elapsed, with its screenshot scheduler.
NextShots ==
    \/ Controller(1)
    \/ \E g \in Gens : Shooter(g)

SpecShots == Init /\ [][NextShots]_vars

\* One session in which keys are pressed and which ends before the upload
\* interval has elapsed, with its window monitor.
NextWindow ==
    \/ Controller(1)
    \/ \E g \in Gens :
         \/ OnKeyPress(g, MaxObs + 1)
         \/ Writer(g)
         \/ Monitor(g)

SpecWindow == Init /\ [][NextWindow]_vars

\* Sessions in which no input arrives and which end before the upload
\* interval has elapsed, with their window monitors; every thread that can
\* take a step eventually takes one.
NextLive ==
    \/ Controller(MaxSessions)
    \/ \E g \in Gens : Waiter(g) \/ Monitor(g)

SpecLive ==
    /\ Init /\ [][NextLive]_vars
    /\ \A g \in Gens : WF_vars(Waiter(g)) /\ WF_vars(Monitor(g))




\* ------------------------------------------------------ history helpers
\* Where the record of observation o stands: <<path, line>>.
Lines == UNION {{p} \X DOMAIN content[p] : p \in DOMAIN content}
Places(o) == {pl \in Lines : content[pl[1]][pl[2]].o = o}

\* The callback of observation o ran while the state was Recording: it was
\* delivered in that state and stop() has not run during it.
WithinRecording(o) == obs[o].rec0 /\ ~obs[o].intr

HandlesOf(path) == {h \in DOMAIN handles : handles[h].path = path}

LandsWhereLocked ==
    \A o \in DOMAIN obs :
        WithinRecording(o) => \A pl \in Places(o) : pl[1] = obs[o].lockPath

\* A step appends nothing to a segment a rotation has swapped out.
OldSegmentFrozen ==
    \A k \in DOMAIN rotlog :
        rotlog[k].ok => content'[rotlog[k].closed] = content[rotlog[k].closed]

\* C2: a record() lands in the segment that was active when it took the
\* lock (the pre-rotation segment if it took the lock before the swap, the
\* post-rotation segment if after), and once a rotation has swapped the
\* file nothing is appended to the old segment any more.
C2_OrderedByLock == [](LandsWhereLocked) /\ [][OldSegmentFrozen]_vars

\* A record whose callback took the lock before the swap stands in the old
\* segment and one whose callback took it after the swap in the new one.
C2_Witness ==
    \E k \in DOMAIN rotlog, o1 \in DOMAIN obs, o2 \in DOMAIN obs :
        /\ rotlog[k].ok
        /\ obs[o1].st = "written" /\ obs[o1].lockPath = rotlog[k].closed
        /\ obs[o2].st = "written" /\ obs[o2].lockPath = rotlog[k].new_file
        /\ <<rotlog[k].closed, 1>> \in Places(o1)
        /\ <<rotlog[k].new_file, 1>> \in Places(o2)

C4_HandleIffRecording ==
    (ctl = "idle" /\ lock = NoThread) =>
        /\ is_recording <=> IsOpen(log_file)
        /\ Cardinality(OpenHandles) <= 1

\* ---------------------------------------------------------------- C5
\* A step changes what the session lock guards.
MutatesGuarded ==
    \/ log_file' # log_file
    \/ handles' # handles
    \/ event_count' # event_count
    \/ session'.output_file # session.output_file

\* C5: every step that changes the active file handle (open, close,
\* replace), the event counter or session.output_file is taken by the thread
\* that holds the session lock.
C5_MutationsUnderLock ==
    [][MutatesGuarded => (lock \in Threads /\ pc'[lock] # pc[lock])]_vars

\* ---------------------------------------------------------------- C6
\* C6: a step of record() taken while the state is Stopped appends no
\* record, leaves the event counter unchanged and does not fail.
C6_StoppedRecordIsNoop ==
    [][\A t \in Listeners :
          (~is_recording /\ pc'[t] # pc[t]) =>
              /\ content' = content
              /\ event_count' = event_count
              /\ pc'[t] # "error"]_vars

\* ---------------------------------------------------------------- C7
\* The steps of stop(): it goes past line 249, it returns from line 258, it
\* returns at line 249.
StopProceeds == ctl = "idle" /\ ctl' = "t253"
StopReturns == ctl = "t255" /\ ctl' = "idle"
StopSkipped == ctl_last' = "stop_noop" /\ ctl_last # "stop_noop"

\* C7: stop() goes past line 249 only on a recording observer and returns
\* with the state Stopped, and a stop() on an observer that is not
\* recording (never started, or stopped before) changes nothing: a second
\* stop() leaves the state the first one left.
C7_StopIdempotent ==
    [][/\ StopProceeds => is_recording
       /\ StopReturns => ~is_recording'
       /\ StopSkipped =>
            /\ ~is_recording
            /\ UNCHANGED <<is_recording, session, event_count, lock, fileVars,
                           stop_event, events, last_mouse_time, clock, nuuid,
                           nsess, listening, ctl, ctl_sid, pc, cur, rot, nrot,
                           histVars, bgVars>>]_vars

\* A second stop() has returned at line 249 after the stop() that ended a
\* session.
C7_Witness ==
    /\ ctl_last = "stop_noop"
    /\ nsess >= 1
    /\ ctl = "idle"
    /\ ~is_recording

\* ---------------------------------------------------------------- C8
\* C8: after start(); stop(); start() nothing is carried over: every record
\* stands in a segment of the session in which its observation was captured
\* and carries that session's id, so no observation of the first session is
\* appended to a segment of the second.
C8_NothingCarriedOver ==
    \A pl \in Lines :
        LET r == content[pl[1]][pl[2]] IN
        /\ segOwner[pl[1]] = obs[r.o].sess0
        /\ r.session_id = obs[r.o].sess0

\* ---------------------------------------------------------------- C9
\* The time of the last move accepted before observation o (0: none).
Accepted(o) == {j \in 1..(o - 1) : obs[j].kind = "mouse_move" /\ obs[j].pass}
LastAccepted(o) ==
    IF Accepted(o) = {} THEN 0
    ELSE obs[CHOOSE j \in Accepted(o) : \A i \in Accepted(o) : i <= j].t

Finished(o) == obs[o].st # "inflight"

C10_DeleteIffBoth200 ==
    \A u \in DOMAIN uplog :
        LET e == uplog[u] IN
        /\ e.deleted <=> (e.existed /\ e.post = "200" /\ e.put = "200")
        /\ ~e.existed => (e.post = "none" /\ e.put = "none")
        /\ e.post # "200" => e.put = "none"
        /\ (e.existed /\ ~e.deleted) => e.path \in disk
        /\ e.deleted => e.path \notin disk

\* One upload has removed its file after two answers of 200.
C10_Witness ==
    \E u \in DOMAIN uplog :
        /\ uplog[u].deleted
        /\ uplog[u].post = "200" /\ uplog[u].put = "200"
        /\ uplog[u].path \notin disk

\* --------------------------------------------------------------- C11
\* An upload that did not end in the removal of the file it found.
FailedUpload(u) == uplog[u].existed /\ ~uplog[u].deleted

\* The upload scheduler thread t has stopped looping.
LoopEnded(t) == pc[t] \in {"exit", "dead"}

\* A step that ends an _upload_file call.
UploadEnds == Len(uplog') = Len(uplog) + 1

ShotLoop == {"s112", "s120", "s127", "s129", "s133", "s135"}

\* The screenshot scheduler of session g runs and stop() has not been called
\* on its session.
Undisturbed(g) ==
    is_recording /\ nsess = g /\ pc[<<"shot", g>>] # "unborn"

\* The scheduler of session g starts a capture, opens a window.
Captures(g) == shot'[g].caps = shot[g].caps + 1
OpensWindow(g) == shot'[g].win = shot[g].win + 1

\* C12: in a window that stop() does not interrupt the screenshot scheduler
\* has drawn CAPTURES_PER_HOUR distinct offsets in 0..WindowSeconds-1, it
\* makes one capture per offset, in ascending order of the offsets, until
\* every offset has had its capture, and it opens the next window only when
\* WindowSeconds have elapsed since the window began.
C12_WindowSchedule ==
    /\ [](\A g \in Gens :
            LET t == <<"shot", g>> IN
            Undisturbed(g) =>
                /\ pc[t] \in ShotLoop
                /\ pc[t] \in {"s120", "s127", "s129"} =>
                      /\ shot[g].offsets \in Samples
                      /\ shot[g].caps = shot[g].i - 1
                /\ (pc[t] \in {"s133", "s135"}
                      \/ (pc[t] = "s112" /\ shot[g].win >= 1)) =>
                      shot[g].caps = CAPTURES_PER_HOUR)
    /\ [][\A g \in Gens :
            Undisturbed(g) =>
                /\ Captures(g) =>
                      /\ shot[g].i = shot[g].caps + 1
                      /\ clock >= TargetTime(g)
                /\ (OpensWindow(g) /\ shot[g].win >= 1) =>
                      clock >= WindowEnd(g)]_vars

\* --------------------------------------------------------------- C13
\* start() has just returned with the error of open().
StartFailed == ctl = "idle" /\ ctl_last = "start_error"

\* C13: when open() fails, start() leaves no session behind: the state is
\* Stopped, no file handle is open, the session record is not the one this
\* call built (its id is not the id the call drew), the cancellation signal
\* is not the Event this call created (the one numbered nsess + 1), and no
\* loop or listener of this call runs.
C13_FailedStartCreatesNothing ==
    StartFailed =>
        /\ ~is_recording
        /\ OpenHandles = {}
        /\ session.session_id # ctl_sid
        /\ stop_event # nsess + 1
        /\ ~listening[nsess]
        /\ \A k \in {"up", "shot", "win"} : pc[<<k, nsess>>] = "unborn"

\* --------------------------------------------------------------- C14
\* C14: a capture or a window query that fails does not end its loop: every
\* screenshot scheduler and every window monitor that has been started is
\* at a position of its loop, or has left it after a stop was signalled.
C14_LoopsSurviveFailure ==
    \A g \in Gens :
        /\ pc[<<"shot", g>>] \in ShotLoop \cup {"unborn", "exit"}
        /\ pc[<<"win", g>>] \in {"unborn", "p143", "p164", "exit"}
        /\ "exit" \in {pc[<<"shot", g>>], pc[<<"win", g>>]} =>
              \E e \in DOMAIN events : events[e]

\* --------------------------------------------------------------- C15
\* What a query that fails gives: no window, or an exception.
QueryFailures == {"nowindow", "raise"}

\* The window monitor of session g has made a query.
Polls(g) == pc[<<"win", g>>] = "p143" /\ pc'[<<"win", g>>] = "p164"

\* The last query of every window monitor that has made one has failed.
LastPollsFailed ==
    /\ \E g \in Gens : poll[g] \in QueryFailures
    /\ \A g \in Gens : poll[g] \notin Titles

\* C15: after a poll whose query fails the snapshot has no window in it,
\* and a record built after a failed poll carries no window title.
C15_FailedPollClearsWindow ==
    [][/\ \A g \in Gens :
            (Polls(g) /\ poll'[g] \in QueryFailures) =>
                current_window' = NullWindow
       /\ \A o \in DOMAIN obs :
            (LastPollsFailed /\ obs'[o].sid # obs[o].sid) =>
                obs'[o].win \notin Titles]_vars

\* --------------------------------------------------------------- C16
\* C16: a capture never writes to the file name of the capture before it
\* (the clock does not go back, so a name used earlier is the name used
\* last): no screenshot overwrites another.
C16_DistinctFileNames ==
    [][\A g \in Gens :
          (Captures(g) /\ pc'[<<"shot", g>>] # "dead") =>
              last_shot' # last_shot]_vars

\* --------------------------------------------------------------- C17
\* C17: while the state is Stopped no step of an upload scheduler closes or
\* opens a file, changes session.output_file, takes the lock for a rotation
\* or runs an upload.
C17_NoRotationOnceStopped ==
    [][\A t \in Uploaders :
          (~is_recording /\ pc'[t] # pc[t]) =>
              /\ handles' = handles
              /\ log_file' = log_file
              /\ session' = session
              /\ uplog' = uplog
              /\ lock' # t]_vars

\* --------------------------------------------------------------- C18
\* stop() has set the Event that the start() of session g created.
Signalled(g) == g + 1 \in DOMAIN events /\ events[g + 1]

\* C18: once the stop event of session g is set, the loops that the start()
\* of session g started eventually end, whatever start() and stop() calls
\* follow, and none of them polls (or waits for a tick) for a later session.
C18_LoopsEndWithTheirSession ==
    /\ \A g \in Gens : \A k \in {"up", "win"} :
          [](Signalled(g) => <>(pc[<<k, g>>] = "exit"))
    /\ [][\A g \in Gens : Polls(g) => ~Signalled(g)]_vars

\* --------------------------------------------------------------- C19
\* Observation o is the first mouse move delivered in its session.
FirstMove(o) ==
    /\ obs[o].kind = "mouse_move"
    /\ obs[o].rec0
    /\ \A j \in 1..(o - 1) :
          ~(obs[j].kind = "mouse_move" /\ obs[j].sess0 = obs[o].sess0)

\* C19: the throttle state is per session: the first mouse move of a
\* session passes the throttle test and is written, whatever the time of the
\* last move accepted in the session before.
C19_ThrottlePerSession ==
    \A o \in DOMAIN obs :
        FirstMove(o) =>
            /\ obs[o].pass
            /\ (WithinRecording(o) /\ Finished(o)) => obs[o].st = "written"

\* --------------------------------------------------------------- C20
\* C20: an upload scheduler that is in _upload_file does not hold the
\* session lock, so a record() call is not kept waiting by a destination
\* request or a transfer.
C20_UploadOutsideLock ==
    \A t \in Uploaders : pc[t] = "u302" => lock # t

\* While the upload of the rotated segment is in progress a callback has
\* taken the lock and appended its record to the new segment.
C20_Witness ==
    \E g \in Gens, t \in Listeners :
        /\ pc[<<"up", g>>] = "u302"
        /\ lock = t
        /\ pc[t] = "w360"
        /\ obs[cur[t]].lockPath = rot[g].new_file
        /\ <<rot[g].new_file, 1>> \in Places(cur[t])

\* --------------------------------------------------------------- C21
\* The state is Recording and neither start(), stop() nor a locked section
\* is under way.
RecordingAtRest == is_recording /\ ctl = "idle" /\ lock = NoThread

\* C21: after every rotation attempt, whether it succeeded or failed
\* part-way, while the state is Recording the active handle is an open file
\* whose path is session.output_file, and every record() call of the session
\* that has ended has written its record.
C21_HandleUsableAfterRotation ==
    /\ RecordingAtRest =>
          /\ IsOpen(log_file)
          /\ handles[log_file].path = session.output_file
    /\ \A o \in DOMAIN obs :
          (WithinRecording(o) /\ Finished(o)) => obs[o].st = "written"

=============================================================================
